---- MODULE Spec2Model ----
(***************************************************************************)
(* Random identity generators of src/kiro/random_utils.rs: random_int,     *)
(* generate_random_git_hash, generate_random_os_version,                   *)
(* generate_random_node_version and build_user_agent_headers.              *)
(*                                                                         *)
(* Strings are sequences of one-character strings, so that formatting,     *)
(* prefixes, suffixes and lengths are computed and not assumed.            *)
(*                                                                         *)
(* The randomness source (the fastrand crate) is the environment.  Every   *)
(* draw is a nondeterministic choice.  To keep the state space finite the  *)
(* source is bounded: in one behaviour at most MaxFree draws differ from   *)
(* the low end of the range asked for, and a draw that differs is taken    *)
(* from rng.res + 1 points spread over the range, both ends included.      *)
(* Which draws differ is not fixed: any draw of any call may be one.       *)
(* Spec takes Resolution for rng.res; SpecHash takes 15, so that every     *)
(* index of HEX_CHARS is drawn; SpecConc takes 1, the two ends of a range. *)
(* A property that says what the source can return is stated for the       *)
(* states where the source is free (rng.free > 0).                         *)
(***************************************************************************)
EXTENDS Integers, Sequences, FiniteSets, TLC

VARIABLES
  frame,   \* per caller: the call in progress, its position and its locals
  rng,     \* the randomness source
  calls,   \* per caller: the number of calls started so far
  overlap  \* history: a call began while another caller was inside a call

vars == <<frame, rng, calls, overlap>>

----------------------------------------------------------------------------
(* Bounds of the model *)

MaxFree == 1
Resolution == 3
MaxArg == 3
MaxCalls == 2

(* The threads that call into the module. *)
Callers == {"a", "b"}

(* The product versions handed to build_user_agent_headers: the empty      *)
(* string and the one of the repository's test.                            *)
KiroVersions == { <<>>, <<"0", ".", "8", ".", "0">> }

----------------------------------------------------------------------------
(* Program constants *)

HASH_LEN == 40

HEX_CHARS_UPPER == <<"0", "1", "2", "3", "4", "5", "6", "7", "8", "9", "A", "B", "C", "D", "E", "F">>

HEX_CHARS == <<"0", "1", "2", "3", "4", "5", "6", "7", "8", "9", "a", "b", "c", "d", "e", "f">>

SDK_VERSION == <<"1", ".", "0", ".", "1", "8">>

----------------------------------------------------------------------------
(* Formatting: what format!("{}", n) writes for an unsigned integer *)

DecDigits == <<"0", "1", "2", "3", "4", "5", "6", "7", "8", "9">>

RECURSIVE to_string(_)
to_string(n) ==
  IF n < 10 THEN <<DecDigits[n + 1]>>
  ELSE Append(to_string(n \div 10), DecDigits[(n % 10) + 1])

----------------------------------------------------------------------------
(* The randomness source *)

(* The points of lo..hi the bounded source can return when it is free to. *)
Spread(lo, hi) == { lo + ((r * (hi - lo)) \div rng.res) : r \in 0 .. rng.res }

Outcomes(lo, hi) == IF rng.free > 0 THEN Spread(lo, hi) ELSE {lo}

(* fastrand::u32(lo..=hi): the draws it can return. cost is what the draw  *)
(* takes from the bounded source's budget.                                  *)
fastrand_u32(lo, hi) ==
  { [val |-> v, drew |-> TRUE, cost |-> IF v = lo THEN 0 ELSE 1] : v \in Outcomes(lo, hi) }

(* fastrand::usize(..n) *)
fastrand_usize(n) ==
  { [val |-> v, drew |-> TRUE, cost |-> IF v = 0 THEN 0 ELSE 1] : v \in Outcomes(0, n - 1) }

----------------------------------------------------------------------------
(* random_int: the results it can return, each with whether it drew *)

(* random_int drawing from min..max without max. *)
random_int_exclusive(min, max) ==
  IF min >= max
  THEN { [val |-> min, drew |-> FALSE, cost |-> 0] }
  ELSE fastrand_u32(min, max - 1)

(* random_int putting its bounds in order instead of returning min. *)
random_int_swap(min, max) ==
  IF min >= max THEN fastrand_u32(max, min) ELSE fastrand_u32(min, max)

random_int(min, max) ==
  IF min >= max
  THEN { [val |-> min, drew |-> FALSE, cost |-> 0] }
  ELSE fastrand_u32(min, max)

----------------------------------------------------------------------------
(* Frames *)

NoHeaders ==
  [x_amzn_kiro_agent_mode |-> "", x_amz_user_agent |-> <<>>, user_agent |-> <<>>]

(* A caller that is in no call. drawn is history: what the source gave    *)
(* the call so far.                                                        *)
Idle ==
  [op |-> "none", pc |-> "idle", kiro_version |-> <<>>,
   min |-> 0, max |-> 0, result |-> 0,
   minor |-> 0, patch |-> 0, build |-> 0,
   node_patch |-> 0, node_build |-> 0,
   i |-> 0, hash |-> <<>>,
   os_version |-> <<>>, node_version |-> <<>>,
   headers |-> NoHeaders,
   drawn |-> <<>>]

(* A call that keeps what the caller's previous call left. *)
StaleFrame(c) == frame[c]

(* The locals of a call that begins: every call has its own, and nothing   *)
(* of them is assigned yet.                                                *)
NewFrame(c) == Idle

(* A caller can start a call when it is inside none. The number of calls   *)
(* of a behaviour is bounded.                                              *)
CanCall(c) == frame[c].pc \in {"idle", "done"} /\ calls[c] < MaxCalls

Enter(c, f) ==
  /\ frame' = [frame EXCEPT ![c] = f]
  /\ calls' = [calls EXCEPT ![c] = @ + 1]
  /\ overlap' = (overlap \/ \E d \in Callers \ {c} : frame[d].pc \notin {"idle", "done"})
  /\ UNCHANGED rng

(* One step of caller c that uses the result r of a draw and leaves the    *)
(* frame as f. drawn is the record of what the source gave this call.      *)
Take(c, r, f) ==
  /\ rng' = [rng EXCEPT !.free = @ - r.cost]
  /\ frame' = [frame EXCEPT ![c] =
                 [f EXCEPT !.drawn = IF r.drew THEN Append(@, r.val) ELSE @]]
  /\ UNCHANGED <<calls, overlap>>

(* Where a generator returns to: its caller is build_user_agent_headers or *)
(* the thread itself.                                                       *)
ReturnTo(op, gen) ==
  IF op # "build" THEN "done"
  ELSE CASE gen = "os" -> "node_patch"
         [] gen = "node" -> "hash"
         [] gen = "hash" -> "assemble"

----------------------------------------------------------------------------
(* A direct call of random_int(min, max) *)

CallRandomInt(c) ==
  /\ CanCall(c)
  /\ \E min \in 0 .. MaxArg, max \in 0 .. MaxArg :
       Enter(c, [NewFrame(c) EXCEPT !.op = "random_int", !.pc = "random_int",
                                    !.min = min, !.max = max])

RandomIntReturn(c) ==
  LET f == frame[c] IN
  /\ f.pc = "random_int"
  /\ \E r \in random_int(f.min, f.max) :
       Take(c, r, [f EXCEPT !.result = r.val, !.pc = "done"])

----------------------------------------------------------------------------
(* generate_random_git_hash *)

CallGitHash(c) ==
  /\ CanCall(c)
  /\ Enter(c, [NewFrame(c) EXCEPT !.op = "git_hash", !.pc = "hash"])

(* An index drawn below 15. *)
hash_idx_short == fastrand_usize(15)

(* let idx = fastrand::usize(..16) *)
hash_idx == fastrand_usize(16)

(* One iteration of the loop: a draw of idx and a push of HEX_CHARS[idx]. *)
GitHashPush(c) ==
  LET f == frame[c] IN
  /\ f.pc = "hash"
  /\ f.i < HASH_LEN
  /\ \E r \in hash_idx :
       Take(c, r, [f EXCEPT !.hash = Append(@, HEX_CHARS[r.val + 1]), !.i = @ + 1])

(* The loop is over: the hash is returned. *)
GitHashReturn(c) ==
  LET f == frame[c] IN
  /\ f.pc = "hash"
  /\ f.i >= HASH_LEN
  /\ frame' = [frame EXCEPT ![c] = [f EXCEPT !.pc = ReturnTo(f.op, "hash")]]
  /\ UNCHANGED <<rng, calls, overlap>>

----------------------------------------------------------------------------
(* generate_random_os_version *)

os_minor == random_int(7, 9)

(* A patch drawn from 0..100. *)
os_patch_wide == random_int(0, 100)

os_patch == random_int(0, 99)
os_build == random_int(0, 299)

format_os_version(major, minor, patch, build) ==
  to_string(major) \o <<".">> \o to_string(minor) \o <<".">> \o to_string(patch)
    \o <<".">> \o to_string(build)
    \o <<"-", "e", "l", "e", "c", "t", "r", "o", "n", ".", "0">>

CallOsVersion(c) ==
  /\ CanCall(c)
  /\ Enter(c, [NewFrame(c) EXCEPT !.op = "os_version", !.pc = "os_minor"])

OsVersionMinor(c) ==
  LET f == frame[c] IN
  /\ f.pc = "os_minor"
  /\ \E r \in os_minor : Take(c, r, [f EXCEPT !.minor = r.val, !.pc = "os_patch"])

OsVersionPatch(c) ==
  LET f == frame[c] IN
  /\ f.pc = "os_patch"
  /\ \E r \in os_patch : Take(c, r, [f EXCEPT !.patch = r.val, !.pc = "os_build"])

(* The last draw and the format! that makes the returned string. *)
OsVersionBuild(c) ==
  LET f == frame[c] IN
  /\ f.pc = "os_build"
  /\ \E r \in os_build :
       Take(c, r, [f EXCEPT !.build = r.val,
                            !.os_version = format_os_version(13, f.minor, f.patch, r.val),
                            !.pc = ReturnTo(f.op, "os")])

----------------------------------------------------------------------------
(* generate_random_node_version *)

node_patch == random_int(7200, 7210)

(* A build drawn from 0..1000. *)
node_build_wide == random_int(0, 1000)

node_build == random_int(0, 999)

format_node_version(major, minor, patch, build) ==
  to_string(major) \o <<".">> \o to_string(minor) \o <<".">> \o to_string(patch)
    \o <<".">> \o to_string(build)

CallNodeVersion(c) ==
  /\ CanCall(c)
  /\ Enter(c, [NewFrame(c) EXCEPT !.op = "node_version", !.pc = "node_patch"])

NodeVersionPatch(c) ==
  LET f == frame[c] IN
  /\ f.pc = "node_patch"
  /\ \E r \in node_patch :
       Take(c, r, [f EXCEPT !.node_patch = r.val, !.pc = "node_build"])

NodeVersionBuild(c) ==
  LET f == frame[c] IN
  /\ f.pc = "node_build"
  /\ \E r \in node_build :
       Take(c, r, [f EXCEPT !.node_build = r.val,
                            !.node_version = format_node_version(138, 0, f.node_patch, r.val),
                            !.pc = ReturnTo(f.op, "node")])

----------------------------------------------------------------------------
(* build_user_agent_headers *)

format_x_amz_user_agent(kiro_version, hash) ==
  <<"a", "w", "s", "-", "s", "d", "k", "-", "j", "s", "/">> \o SDK_VERSION
    \o <<" ", "K", "i", "r", "o", "I", "D", "E", "-">> \o kiro_version
    \o <<"-">> \o hash

(* user_agent with the OS and Node versions in each other's place. *)
format_user_agent_swapped(os_version, node_version, kiro_version, hash) ==
  <<"a", "w", "s", "-", "s", "d", "k", "-", "j", "s", "/">> \o SDK_VERSION
    \o <<" ", "u", "a", "/", "2", ".", "1", " ", "o", "s", "/">> \o node_version
    \o <<" ", "l", "a", "n", "g", "/", "j", "s", " ", "m", "d", "/", "n", "o", "d", "e", "j", "s", "#">>
    \o os_version
    \o <<" ", "a", "p", "i", "/", "c", "o", "d", "e", "w", "h", "i", "s", "p", "e", "r", "e", "r",
         "s", "t", "r", "e", "a", "m", "i", "n", "g", "#">> \o SDK_VERSION
    \o <<" ", "m", "/", "E", " ", "K", "i", "r", "o", "I", "D", "E", "-">> \o kiro_version
    \o <<"-">> \o hash

format_user_agent(os_version, node_version, kiro_version, hash) ==
  <<"a", "w", "s", "-", "s", "d", "k", "-", "j", "s", "/">> \o SDK_VERSION
    \o <<" ", "u", "a", "/", "2", ".", "1", " ", "o", "s", "/">> \o os_version
    \o <<" ", "l", "a", "n", "g", "/", "j", "s", " ", "m", "d", "/", "n", "o", "d", "e", "j", "s", "#">>
    \o node_version
    \o <<" ", "a", "p", "i", "/", "c", "o", "d", "e", "w", "h", "i", "s", "p", "e", "r", "e", "r",
         "s", "t", "r", "e", "a", "m", "i", "n", "g", "#">> \o SDK_VERSION
    \o <<" ", "m", "/", "E", " ", "K", "i", "r", "o", "I", "D", "E", "-">> \o kiro_version
    \o <<"-">> \o hash

(* A hash generated a second time for user_agent: one that the draws of   *)
(* the second generation can give.                                         *)
HashOfUserAgentRegenerated(f) == [k \in 1 .. HASH_LEN |-> HEX_CHARS[1]]

(* A hash kept in one place that all callers share. *)
HashOfUserAgentShared(f) == frame["a"].hash

(* The hash that user_agent is given: the local that x_amz_user_agent is   *)
(* given too.                                                               *)
HashOfUserAgent(f) == f.hash

UserAgentHeaders(f) ==
  [x_amzn_kiro_agent_mode |-> "spec",
   x_amz_user_agent |-> format_x_amz_user_agent(f.kiro_version, f.hash),
   user_agent |-> format_user_agent(f.os_version, f.node_version, f.kiro_version,
                                    HashOfUserAgent(f))]

CallBuildWith(c, v) ==
  /\ CanCall(c)
  /\ Enter(c, [NewFrame(c) EXCEPT !.op = "build", !.pc = "os_minor", !.kiro_version = v])

CallBuild(c) == \E v \in KiroVersions : CallBuildWith(c, v)

(* The three generators have returned: the struct is built and returned. *)
BuildReturn(c) ==
  LET f == frame[c] IN
  /\ f.pc = "assemble"
  /\ frame' = [frame EXCEPT ![c] = [f EXCEPT !.headers = UserAgentHeaders(f), !.pc = "done"]]
  /\ UNCHANGED <<rng, calls, overlap>>

----------------------------------------------------------------------------
(* Specifications *)

Step(c) ==
  \/ RandomIntReturn(c)
  \/ GitHashPush(c)
  \/ GitHashReturn(c)
  \/ OsVersionMinor(c)
  \/ OsVersionPatch(c)
  \/ OsVersionBuild(c)
  \/ NodeVersionPatch(c)
  \/ NodeVersionBuild(c)
  \/ BuildReturn(c)

InitRes(res) ==
  /\ frame = [c \in Callers |-> Idle]
  /\ rng = [free |-> MaxFree, res |-> res]
  /\ calls = [c \in Callers |-> 0]
  /\ overlap = FALSE

Init == InitRes(Resolution)

(* One thread making calls one after the other. *)
Next ==
  \/ CallRandomInt("a")
  \/ CallGitHash("a")
  \/ CallOsVersion("a")
  \/ CallNodeVersion("a")
  \/ CallBuild("a")
  \/ Step("a")

Spec == Init /\ [][Next]_vars

(* One thread generating hashes, the source able to return every index of  *)
(* HEX_CHARS.                                                               *)
InitHash == InitRes(Len(HEX_CHARS) - 1)

NextHash ==
  \/ CallGitHash("a")
  \/ GitHashPush("a")
  \/ GitHashReturn("a")

SpecHash == InitHash /\ [][NextHash]_vars

(* Every caller makes one call of build_user_agent_headers, each with its  *)
(* own product version; the callers' draws interleave in every order. The  *)
(* source returns either end of a range.                                   *)
ConcVersion(c) == IF c = "a" THEN <<"0", ".", "8", ".", "0">> ELSE <<>>

InitConc == InitRes(1)

NextConc ==
  \E c \in Callers :
    \/ calls[c] = 0 /\ CallBuildWith(c, ConcVersion(c))
    \/ OsVersionMinor(c)
    \/ OsVersionPatch(c)
    \/ OsVersionBuild(c)
    \/ NodeVersionPatch(c)
    \/ NodeVersionBuild(c)
    \/ GitHashPush(c)
    \/ GitHashReturn(c)
    \/ BuildReturn(c)

SpecConc == InitConc /\ [][NextConc]_vars

----------------------------------------------------------------------------
(* What the claims are stated with *)

LowerHexDigits == <<"0", "1", "2", "3", "4", "5", "6", "7", "8", "9", "a", "b", "c", "d", "e", "f">>

LowerHex == { LowerHexDigits[k] : k \in 1 .. Len(LowerHexDigits) }

DecimalDigits == <<"0", "1", "2", "3", "4", "5", "6", "7", "8", "9">>

DecimalChars == { DecimalDigits[k] : k \in 1 .. Len(DecimalDigits) }

StartsWith(s, p) == Len(s) >= Len(p) /\ SubSeq(s, 1, Len(p)) = p

EndsWith(s, p) == Len(s) >= Len(p) /\ SubSeq(s, Len(s) - Len(p) + 1, Len(s)) = p

LastN(s, n) == SubSeq(s, Len(s) - n + 1, Len(s))

(* The fields of s between its dots. *)
RECURSIVE SplitDots(_)
SplitDots(s) ==
  IF s = <<>> THEN << <<>> >>
  ELSE LET rest == SplitDots(Tail(s)) IN
       IF Head(s) = "." THEN << <<>> >> \o rest
       ELSE << <<Head(s)>> \o rest[1] >> \o Tail(rest)

IsNumber(s) == s # <<>> /\ \A k \in 1 .. Len(s) : s[k] \in DecimalChars

DigitValue(ch) == CHOOSE d \in 0 .. 9 : DecimalDigits[d + 1] = ch

RECURSIVE NumberOf(_)
NumberOf(s) ==
  IF s = <<>> THEN 0
  ELSE 10 * NumberOf(SubSeq(s, 1, Len(s) - 1)) + DigitValue(s[Len(s)])

ElectronSuffix == <<"-", "e", "l", "e", "c", "t", "r", "o", "n", ".", "0">>

(* "13.{minor}.{patch}.{build}-electron.0" with the three in their ranges *)
OsVersionOk(s) ==
  /\ EndsWith(s, ElectronSuffix)
  /\ LET p == SplitDots(SubSeq(s, 1, Len(s) - Len(ElectronSuffix))) IN
       /\ Len(p) = 4
       /\ p[1] = <<"1", "3">>
       /\ IsNumber(p[2]) /\ NumberOf(p[2]) \in 7 .. 9
       /\ IsNumber(p[3]) /\ NumberOf(p[3]) \in 0 .. 99
       /\ IsNumber(p[4]) /\ NumberOf(p[4]) \in 0 .. 299

(* "138.0.{patch}.{build}" with the two in their ranges *)
NodeVersionOk(s) ==
  LET p == SplitDots(s) IN
    /\ Len(p) = 4
    /\ p[1] = <<"1", "3", "8">>
    /\ p[2] = <<"0">>
    /\ IsNumber(p[3]) /\ NumberOf(p[3]) \in 7200 .. 7210
    /\ IsNumber(p[4]) /\ NumberOf(p[4]) \in 0 .. 999

(* The hash that the index draws d give. *)
HashFrom(d) == [k \in 1 .. Len(d) |-> LowerHexDigits[d[k] + 1]]

Returned(f, op) == f.op = op /\ f.pc = "done"

----------------------------------------------------------------------------
(* C1: when build_user_agent_headers has returned, the last 40 characters  *)
(* of x_amz_user_agent and of user_agent are the same, and are the one     *)
(* hash of the call, which took 40 draws and no more.                      *)
C1_SameHashInBothStrings ==
  \A c \in Callers :
    LET f == frame[c] IN
    Returned(f, "build") =>
      /\ Len(f.hash) = 40
      /\ LastN(f.headers.x_amz_user_agent, 40) = f.hash
      /\ LastN(f.headers.user_agent, 40) = f.hash
      /\ LastN(f.headers.x_amz_user_agent, 40) = LastN(f.headers.user_agent, 40)
      /\ Len(f.drawn) = 45
      /\ f.hash = HashFrom(SubSeq(f.drawn, 6, 45))

C1_Witness ==
  LET f == frame["a"] IN
  /\ Returned(f, "build")
  /\ f.hash[17] = "f"
  /\ LastN(f.headers.user_agent, 40)[17] = "f"

(* C2: for every product version, the empty one included, the call goes    *)
(* on to its return, and returns the tag "spec" and the two strings in     *)
(* the exact form, with the version as given and the OS version, Node      *)
(* version and hash of this call.                                          *)
C2_HeadersExact ==
  \A c \in Callers :
    LET f == frame[c] IN
    /\ (f.op = "build" /\ f.pc # "done") => ENABLED Step(c)
    /\ f.op = "build" => f.kiro_version \in KiroVersions
    /\ Returned(f, "build") =>
         /\ f.headers.x_amzn_kiro_agent_mode = "spec"
         /\ f.headers.x_amz_user_agent =
              <<"a", "w", "s", "-", "s", "d", "k", "-", "j", "s", "/", "1", ".", "0", ".", "1", "8",
                " ", "K", "i", "r", "o", "I", "D", "E", "-">>
                \o f.kiro_version \o <<"-">> \o f.hash
         /\ f.headers.user_agent =
              <<"a", "w", "s", "-", "s", "d", "k", "-", "j", "s", "/", "1", ".", "0", ".", "1", "8",
                " ", "u", "a", "/", "2", ".", "1", " ", "o", "s", "/">>
                \o f.os_version
                \o <<" ", "l", "a", "n", "g", "/", "j", "s", " ", "m", "d", "/", "n", "o", "d", "e",
                     "j", "s", "#">>
                \o f.node_version
                \o <<" ", "a", "p", "i", "/", "c", "o", "d", "e", "w", "h", "i", "s", "p", "e", "r",
                     "e", "r", "s", "t", "r", "e", "a", "m", "i", "n", "g", "#", "1", ".", "0", ".",
                     "1", "8", " ", "m", "/", "E", " ", "K", "i", "r", "o", "I", "D", "E", "-">>
                \o f.kiro_version \o <<"-">> \o f.hash
         /\ OsVersionOk(f.os_version)
         /\ NodeVersionOk(f.node_version)
         /\ Len(f.hash) = 40

C2_Witness ==
  LET f == frame["a"] IN
  /\ Returned(f, "build")
  /\ f.kiro_version = <<>>
  /\ f.node_version = <<"1", "3", "8", ".", "0", ".", "7", "2", "0", "0", ".", "9", "9", "9">>
  /\ Len(f.headers.x_amz_user_agent) = 67

(* C3: random_int(min, max) with min >= max returns min, and has drawn     *)
(* nothing from the source.                                                *)
C3_DegenerateRangeReturnsMin ==
  \A c \in Callers :
    LET f == frame[c] IN
    (Returned(f, "random_int") /\ f.min >= f.max) =>
      /\ f.result = f.min
      /\ f.drawn = <<>>

C3_Witness ==
  LET f == frame["a"] IN
  /\ Returned(f, "random_int")
  /\ f.min = 2 /\ f.max = 1
  /\ f.result = 2

(* C4: random_int(min, max) with min < max returns a value of min..max,    *)
(* and while the source is free every value of min..max, both ends         *)
(* included, is one it can return.                                         *)
C4_RangeInclusive ==
  \A c \in Callers :
    LET f == frame[c] IN
    /\ (Returned(f, "random_int") /\ f.min < f.max) =>
         (f.min <= f.result /\ f.result <= f.max)
    /\ (f.pc = "random_int" /\ f.min < f.max /\ rng.free > 0) =>
         \A v \in f.min .. f.max :
           ENABLED (RandomIntReturn(c) /\ frame'[c].result = v)

C4_Witness ==
  LET f == frame["a"] IN
  /\ Returned(f, "random_int")
  /\ f.min = 1 /\ f.max = 3
  /\ f.result = f.max

(* C5: the hash has only characters of 0123456789abcdef, never more than   *)
(* 40 of them, and when generate_random_git_hash has returned it has       *)
(* exactly 40, from exactly 40 draws.                                      *)
C5_HashIs40LowerHex ==
  \A c \in Callers :
    LET f == frame[c] IN
    /\ \A k \in 1 .. Len(f.hash) : f.hash[k] \in LowerHex
    /\ Len(f.hash) <= 40
    /\ Returned(f, "git_hash") => (Len(f.hash) = 40 /\ Len(f.drawn) = 40)

C5_Witness ==
  LET f == frame["a"] IN
  /\ Returned(f, "git_hash")
  /\ f.hash[7] = "c"

(* C6: the OS version is "13.{minor}.{patch}.{build}-electron.0" with      *)
(* minor in 7..9, patch in 0..99 and build in 0..299.                      *)
C6_OsVersionInRange ==
  \A c \in Callers :
    LET f == frame[c] IN
    /\ Returned(f, "os_version") => f.os_version # <<>>
    /\ f.os_version # <<>> =>
         /\ OsVersionOk(f.os_version)
         /\ StartsWith(f.os_version, <<"1", "3", ".">>)
         /\ f.minor \in 7 .. 9 /\ f.patch \in 0 .. 99 /\ f.build \in 0 .. 299

C6_Witness ==
  LET f == frame["a"] IN
  /\ Returned(f, "os_version")
  /\ f.os_version = <<"1", "3", ".", "7", ".", "9", "9", ".", "0">> \o ElectronSuffix

(* C7: the Node version is "138.0.{patch}.{build}" with patch in           *)
(* 7200..7210 and build in 0..999.                                         *)
C7_NodeVersionInRange ==
  \A c \in Callers :
    LET f == frame[c] IN
    /\ Returned(f, "node_version") => f.node_version # <<>>
    /\ f.node_version # <<>> =>
         /\ NodeVersionOk(f.node_version)
         /\ StartsWith(f.node_version, <<"1", "3", "8", ".", "0", ".">>)
         /\ f.node_patch \in 7200 .. 7210 /\ f.node_build \in 0 .. 999

C7_Witness ==
  LET f == frame["a"] IN
  /\ Returned(f, "node_version")
  /\ f.node_version = <<"1", "3", "8", ".", "0", ".", "7", "2", "1", "0", ".", "0">>

C9_ConcurrentCallsIsolated ==
  \A c \in Callers :
    LET f == frame[c]
        d == f.drawn
    IN
    Returned(f, "build") =>
      /\ Len(d) = 45
      /\ LastN(f.headers.x_amz_user_agent, 40) = LastN(f.headers.user_agent, 40)
      /\ LastN(f.headers.user_agent, 40) = HashFrom(SubSeq(d, 6, 45))
      /\ OsVersionOk(f.os_version)
      /\ NodeVersionOk(f.node_version)
      /\ f.headers.x_amz_user_agent =
           format_x_amz_user_agent(ConcVersion(c), HashFrom(SubSeq(d, 6, 45)))
      /\ f.headers.user_agent =
           format_user_agent(format_os_version(13, d[1], d[2], d[3]),
                             format_node_version(138, 0, d[4], d[5]),
                             ConcVersion(c), HashFrom(SubSeq(d, 6, 45)))

C9_Witness ==
  /\ overlap
  /\ Returned(frame["a"], "build")
  /\ Returned(frame["b"], "build")
  /\ frame["a"].hash[40] = "f"
  /\ frame["b"].hash[40] = "0"
  /\ frame["a"].headers.user_agent # frame["b"].headers.user_agent

(* C10: a call that follows another begins with the locals a first call   *)
(* begins with, and what a call returns is made of its input and of the    *)
(* draws of this call alone, as many as a first call makes, however many   *)
(* calls came before and whatever they were given and returned.            *)
C10_EveryCallDrawsAfresh ==
  \A c \in Callers :
    LET f == frame[c]
        d == f.drawn
    IN
    /\ (f.pc = "done" /\ calls[c] < MaxCalls) =>
         /\ \A v \in KiroVersions :
              ENABLED (CallBuildWith(c, v) /\ frame'[c] =
                         [Idle EXCEPT !.op = "build", !.pc = "os_minor", !.kiro_version = v])
         /\ ENABLED (CallGitHash(c) /\ frame'[c] =
                       [Idle EXCEPT !.op = "git_hash", !.pc = "hash"])
    /\ Returned(f, "git_hash") => (Len(d) = 40 /\ f.hash = HashFrom(d))
    /\ Returned(f, "os_version") =>
         (Len(d) = 3 /\ f.os_version = format_os_version(13, d[1], d[2], d[3]))
    /\ Returned(f, "node_version") =>
         (Len(d) = 2 /\ f.node_version = format_node_version(138, 0, d[1], d[2]))
    /\ Returned(f, "build") =>
         /\ Len(d) = 45
         /\ f.os_version = format_os_version(13, d[1], d[2], d[3])
         /\ f.node_version = format_node_version(138, 0, d[4], d[5])
         /\ f.hash = HashFrom(SubSeq(d, 6, 45))
         /\ f.headers.x_amz_user_agent = format_x_amz_user_agent(f.kiro_version, f.hash)
         /\ f.headers.user_agent =
              format_user_agent(f.os_version, f.node_version, f.kiro_version, f.hash)

C10_Witness ==
  LET f == frame["a"] IN
  /\ calls["a"] >= 2
  /\ Returned(f, "build")
  /\ f.hash[1] = "f"
  /\ f.os_version = <<"1", "3", ".", "7", ".", "0", ".", "0">> \o ElectronSuffix

====
